---- MODULE Spec2Model ----
(***************************************************************************)
(* The LoRa radio transport of examples/arduino/common (LoraRadio.cpp,     *)
(* LoraRadio.h): its init/deinit life cycle, send and wait_recv, on the    *)
(* simulated backend (a descriptor on the NEXUS_LORA channel file) and on  *)
(* the hardware backend (the RH_RF95 driver).                              *)
(*                                                                         *)
(* The process under study holds the statics INITIALIZED, RF95 and         *)
(* LAST_RSSI and a descriptor table, and calls init, deinit, send and      *)
(* wait_recv in any order.  Its peer is the tx example after setup(): a    *)
(* transport that is Active and calls send.  The channel toward the        *)
(* process is a FIFO of datagrams.                                         *)
(***************************************************************************)
EXTENDS Integers, Sequences, FiniteSets, TLC

(***************************************************************************)
(* Program constants.                                                      *)
(***************************************************************************)
PACKET_MAX_SIZE_BYTES == 251
MS_IN_SECOND == 1000
USEC_IN_MS == 1000
\* the window the receiver example passes to wait_recv
RX_TIMEOUT_MS == 5000

(***************************************************************************)
(* Bounds of the model.                                                    *)
(***************************************************************************)
\* datagrams the channel holds at once
MaxQueue == 2
\* descriptors the process may hold open at once (open fails beyond it)
MaxFds == 2
\* clock ticks during one call of wait_recv
MaxTicks == 2

\* one tick of the clock, in microseconds
TickUsec == USEC_IN_MS
\* the tick while a call with the window timeout_ms waits: a window longer
\* than MaxTicks ticks is crossed in MaxTicks equal steps
TickStep(timeout_ms) ==
    LET window == timeout_ms * USEC_IN_MS IN
    IF window <= MaxTicks * TickUsec THEN TickUsec
    ELSE (window + MaxTicks - 1) \div MaxTicks

RC == {"Okay", "AlreadyInit", "NotInit", "InitFailed", "DeinitFailed",
       "SetFrequencyFailed", "SdActive", "FailedToDeinitSd",
       "FailedToRestoreSd", "SendFailed", "RecvFailed", "TimedOut"}

\* the payload of n bytes whose i-th byte is (b + i - 1) mod 256
Pay(n, b) == [i \in 1..n |-> (b + i - 1) % 256]
\* "A", one byte, and "B", a payload of the maximum size
MsgA == Pay(1, 65)
MsgB == Pay(PACKET_MAX_SIZE_BYTES, 66)
\* the payloads callers send, by name: lengths 1 and 251
Payloads == {"A", "B"}
Bytes(name) ==
    IF name = "A" THEN MsgA ELSE IF name = "B" THEN MsgB ELSE <<>>
\* the timeouts callers pass to wait_recv, in milliseconds
Timeouts == {0, 1, 2, RX_TIMEOUT_MS}
\* the capacities callers pass to wait_recv through len
Caps == {PACKET_MAX_SIZE_BYTES, 1}
\* the caller's receive buffer before the call
FreshBuf == [i \in 1..PACKET_MAX_SIZE_BYTES |-> 170]

Min(S) == CHOOSE x \in S : \A y \in S : x <= y
\* C integer division truncates toward zero
TruncDiv(a, b) == IF a >= 0 THEN a \div b ELSE -((-a) \div b)

VARIABLES
    SIMULATE,   \* the build: TRUE the simulated backend, FALSE the hardware one
    proc,       \* the statics INITIALIZED, RF95, LAST_RSSI; open descriptors
    chan,       \* the datagrams in flight toward the process, oldest first
    clock,      \* the wall clock, a timeval, while a wait_recv is in progress
    ticks,      \* ticks the clock has made since that call began
    pc,         \* "idle", or "wait_recv" while a call waits for data
    frame,      \* the locals of the wait_recv call in progress
    last,       \* the call that has just returned: arguments, outcome, effect
    lastOk,     \* the last life-cycle step that returned Okay
    scen,       \* progress through init, send(A), deinit, send(B)
    back,       \* progress through two back-to-back wait_recv calls
    faulted,    \* whether the environment has failed a backend call so far
    twin        \* the other build, given the same calls and like answers

vars == <<SIMULATE, proc, chan, clock, ticks, pc, frame, last, lastOk, scen,
          back, faulted, twin>>

(***************************************************************************)
(* The environment's answers to one call.  Simulated backend: open(2),     *)
(* close(2), write(2).  Hardware backend: the driver's init, setFrequency, *)
(* send and waitPacketSent.                                                *)
(***************************************************************************)
CloseOutcomes == {"ok", "fail_open", "fail_closed"}
WriteOutcomes == {"full", "short", "fail"}
GoodEnv == [open |-> TRUE, close |-> "ok", write |-> "full",
            drv_init |-> TRUE, set_freq |-> TRUE,
            drv_send |-> TRUE, drv_sent |-> TRUE]

\* the descriptor numbers of the process above stdin, stdout and stderr
FdSpace == 3..(2 + MaxFds)

\* open(NEXUS_LORA, O_RDWR): the lowest free descriptor, or -1
open(fds, ok) ==
    IF ok /\ FdSpace \ fds # {} THEN Min(FdSpace \ fds) ELSE -1

\* close(fd): 0, or -1 (a bad descriptor, or an error of the environment);
\* an error on an open descriptor may or may not have released it
close(fds, fd, outcome) ==
    IF fd \notin fds THEN [ret |-> -1, fds |-> fds]
    ELSE IF outcome = "ok" THEN [ret |-> 0, fds |-> fds \ {fd}]
    ELSE IF outcome = "fail_closed" THEN [ret |-> -1, fds |-> fds \ {fd}]
    ELSE [ret |-> -1, fds |-> fds]

\* write(fd, buf, sz): the count written, or -1
write(fds, fd, sz, outcome) ==
    IF fd \notin fds \/ outcome = "fail" THEN -1
    ELSE IF outcome = "short" THEN sz - 1
    ELSE sz

\* what the channel holds of one write: the first n bytes of the payload
\* named of; with it, the size sz its sender asked for and the code rc the
\* sender's send returned
Datagram(of, n, sz, rc) == [of |-> of, n |-> n, sz |-> sz, rc |-> rc]
NoDatagram == Datagram("none", 0, 0, "none")
\* the bytes of a datagram
DatagramBytes(d) == SubSeq(Bytes(d.of), 1, d.n)

\* the channel after a write of the first n bytes of a payload (n <= 0:
\* nothing)
chan_write(q, of, n, sz, rc) ==
    IF n > 0 THEN Append(q, Datagram(of, n, sz, rc)) ELSE q

\* read(fd, buf, len) and the driver's recv(buf, &len): one datagram, cut to
\* len bytes; nothing (0) when the channel is empty, -1 on a bad descriptor
chan_read(q, usable, len) ==
    IF ~usable THEN [n |-> -1, q |-> q, d |-> NoDatagram]
    ELSE IF q = <<>> THEN [n |-> 0, q |-> q, d |-> NoDatagram]
    ELSE LET d == Head(q)
             n == IF d.n < len THEN d.n ELSE len
         IN  [n |-> n, q |-> Tail(q), d |-> d]

\* buf after n bytes of data were copied to its start
Copy(buf, data, n) == SubSeq(data, 1, n) \o SubSeq(buf, n + 1, Len(buf))

(***************************************************************************)
(* LoraRadio.cpp                                                           *)
(***************************************************************************)
is_active(p) == p.INITIALIZED

get(p) == IF p.INITIALIZED THEN "RF95" ELSE "nullptr"

last_rssi(p) == p.LAST_RSSI

\* an init that refuses a transport that is already Active
init_sim_rejects_reinit(p, e) ==
    LET fd == open(p.fds, e.open) IN
    IF p.INITIALIZED THEN [rc |-> "AlreadyInit", p |-> p]
    ELSE IF fd = -1
    THEN [rc |-> "InitFailed", p |-> [p EXCEPT !.RF95 = fd]]
    ELSE [rc |-> "Okay",
          p |-> [p EXCEPT !.RF95 = fd, !.fds = @ \cup {fd},
                          !.INITIALIZED = TRUE]]

\* init(), simulated: open the channel file
init_sim(p, e) ==
    LET fd == open(p.fds, e.open) IN
    IF fd = -1
    THEN [rc |-> "InitFailed", p |-> [p EXCEPT !.RF95 = fd]]
    ELSE [rc |-> "Okay",
          p |-> [p EXCEPT !.RF95 = fd, !.fds = @ \cup {fd},
                          !.INITIALIZED = TRUE]]

\* an init that clears the stored signal strength
init_hw_resets_rssi(p, e) ==
    IF ~e.drv_init THEN [rc |-> "InitFailed", p |-> p]
    ELSE IF ~e.set_freq THEN [rc |-> "SetFrequencyFailed", p |-> p]
    ELSE [rc |-> "Okay",
          p |-> [p EXCEPT !.INITIALIZED = TRUE, !.LAST_RSSI = 0]]

\* init(), hardware: reset pulse, driver init, set the frequency
init_hw(p, e) ==
    IF ~e.drv_init THEN [rc |-> "InitFailed", p |-> p]
    ELSE IF ~e.set_freq THEN [rc |-> "SetFrequencyFailed", p |-> p]
    ELSE [rc |-> "Okay", p |-> [p EXCEPT !.INITIALIZED = TRUE]]

init(sim, p, e) == IF sim THEN init_sim(p, e) ELSE init_hw(p, e)

\* a deinit that forgets to clear INITIALIZED
deinit_keeps_flag(sim, p, e) ==
    IF ~p.INITIALIZED THEN [rc |-> "NotInit", p |-> p]
    ELSE IF sim
    THEN LET c == close(p.fds, p.RF95, e.close) IN
         IF c.ret = -1
         THEN [rc |-> "DeinitFailed", p |-> [p EXCEPT !.fds = c.fds]]
         ELSE [rc |-> "Okay", p |-> [p EXCEPT !.fds = c.fds]]
    ELSE [rc |-> "Okay", p |-> p]

\* a deinit without the NotInit guard
deinit_unguarded(sim, p, e) ==
    IF sim
    THEN LET c == close(p.fds, p.RF95, e.close) IN
         IF c.ret = -1
         THEN [rc |-> "DeinitFailed", p |-> [p EXCEPT !.fds = c.fds]]
         ELSE [rc |-> "Okay",
               p |-> [p EXCEPT !.fds = c.fds, !.INITIALIZED = FALSE]]
    ELSE [rc |-> "Okay", p |-> [p EXCEPT !.INITIALIZED = FALSE]]

deinit(sim, p, e) ==
    IF ~p.INITIALIZED THEN [rc |-> "NotInit", p |-> p]
    ELSE IF sim
    THEN LET c == close(p.fds, p.RF95, e.close) IN
         IF c.ret = -1
         THEN [rc |-> "DeinitFailed", p |-> [p EXCEPT !.fds = c.fds]]
         ELSE [rc |-> "Okay",
               p |-> [p EXCEPT !.fds = c.fds, !.INITIALIZED = FALSE]]
    ELSE [rc |-> "Okay", p |-> [p EXCEPT !.INITIALIZED = FALSE]]

\* the first lines of send and of wait_recv: if (!is_active()) rc = init();
\* initRc is "none" when init was not called; inits counts the calls of init
auto_init(sim, p, e) ==
    IF ~is_active(p)
    THEN LET r == init(sim, p, e)
         IN  [rc |-> r.rc, p |-> r.p, initRc |-> r.rc, inits |-> 1]
    ELSE [rc |-> "Okay", p |-> p, initRc |-> "none", inits |-> 0]

\* a send without the implicit init
send_sim_no_auto_init(p, buf, sz, e) ==
    LET nwritten == write(p.fds, p.RF95, sz, e.write)
    IN  [rc |-> IF nwritten < 0 \/ nwritten # sz THEN "SendFailed" ELSE "Okay",
         p |-> p, nwritten |-> nwritten, initRc |-> "none",
         io |-> ~is_active(p), inits |-> 0, handoffs |-> 1]

\* a send that takes any non-negative write count for success
send_sim_no_count_check(p, buf, sz, e) ==
    LET a == auto_init(TRUE, p, e)
        nwritten == write(a.p.fds, a.p.RF95, sz, e.write)
    IN  [rc |-> IF nwritten < 0 THEN "SendFailed" ELSE a.rc,
         p |-> a.p, nwritten |-> nwritten, initRc |-> a.initRc,
         io |-> ~is_active(a.p), inits |-> a.inits, handoffs |-> 1]

\* a send that writes again when its write did not take all of buf
send_sim_retries_write(p, buf, sz, e) ==
    LET a == auto_init(TRUE, p, e)
        first == write(a.p.fds, a.p.RF95, sz, e.write)
        again == first < 0 \/ first # sz
        nwritten == IF again THEN write(a.p.fds, a.p.RF95, sz, e.write)
                    ELSE first
    IN  [rc |-> IF nwritten < 0 \/ nwritten # sz THEN "SendFailed" ELSE a.rc,
         p |-> a.p, nwritten |-> nwritten, initRc |-> a.initRc,
         io |-> ~is_active(a.p), inits |-> a.inits,
         handoffs |-> IF again THEN 2 ELSE 1]

\* send(), simulated: one write; nwritten is what the channel took, io
\* whether the backend was used while the transport was not Active, inits
\* and handoffs the calls of init and of write made
send_sim(p, buf, sz, e) ==
    LET a == auto_init(TRUE, p, e)
        nwritten == write(a.p.fds, a.p.RF95, sz, e.write)
    IN  [rc |-> IF nwritten < 0 \/ nwritten # sz THEN "SendFailed" ELSE a.rc,
         p |-> a.p, nwritten |-> nwritten, initRc |-> a.initRc,
         io |-> ~is_active(a.p), inits |-> a.inits, handoffs |-> 1]

\* send(), hardware: the driver's send, then waitPacketSent; both are
\* skipped once rc is not Okay; handoffs counts the calls of the driver's send
send_hw(p, buf, sz, e) ==
    LET a == auto_init(FALSE, p, e)
        rf95 == get(a.p)
        rc1 == IF a.rc = "Okay" /\ ~e.drv_send THEN "SendFailed" ELSE a.rc
        rc2 == IF rc1 = "Okay" /\ ~e.drv_sent THEN "TimedOut" ELSE rc1
    IN  [rc |-> rc2, p |-> a.p,
         nwritten |-> IF rc2 = "Okay" THEN sz ELSE 0,
         initRc |-> a.initRc,
         io |-> a.rc = "Okay" /\ rf95 = "nullptr",
         inits |-> a.inits,
         handoffs |-> IF a.rc = "Okay" THEN 1 ELSE 0]

send(sim, p, buf, sz, e) ==
    IF sim THEN send_sim(p, buf, sz, e) ELSE send_hw(p, buf, sz, e)

\* gettimeofday differences as wait_recv computes them
elapsed_ms(start, now) ==
    (now.sec - start.sec) * MS_IN_SECOND
        + TruncDiv(now.usec - start.usec, USEC_IN_MS)

\* the driver's millis()
millis(tv) == tv.sec * MS_IN_SECOND + tv.usec \div USEC_IN_MS

\* the start of wait_recv: the implicit init; the simulated timed wait then
\* reads the clock
wait_recv_enter(sim, p, len, timeout_ms, e, now) ==
    LET a == auto_init(sim, p, e) IN
    [p |-> a.p,
     f |-> [rc |-> a.rc, len |-> len, timeout_ms |-> timeout_ms,
            start |-> now, initRc |-> a.initRc, io |-> ~is_active(a.p),
            inits |-> a.inits]]

\* what one step of the rest of wait_recv comes to: "return" with a result,
\* "again" (the loop goes round) or "blocked" (the driver waits on)
\* n is what the read returned and d the datagram it took
Outcome(state, rc, f, n, d, q) ==
    [state |-> state, rc |-> rc,
     len |-> IF n > 0 THEN n % 256 ELSE f.len,
     n |-> n, q |-> q, d |-> d]

\* the caller's buf after the read that returned n took datagram d
read_into(buf, d, n) ==
    IF n > 0 THEN Copy(buf, DatagramBytes(d), n) ELSE buf

\* a timed wait that never looks at the deadline
wait_recv_sim_no_deadline(p, q, f, now) ==
    LET r == chan_read(q, p.RF95 \in p.fds, f.len) IN
    IF f.timeout_ms # 0
    THEN IF r.n > 0 THEN Outcome("return", f.rc, f, r.n, r.d, r.q)
         ELSE Outcome("again", f.rc, f, 0, NoDatagram, q)
    ELSE IF r.n <= 0 THEN Outcome("return", "RecvFailed", f, 0, NoDatagram, q)
         ELSE Outcome("return", f.rc, f, r.n, r.d, r.q)

\* a wait_recv that reports the capacity instead of the count read
wait_recv_sim_len_kept(p, q, f, now) ==
    LET r == chan_read(q, p.RF95 \in p.fds, f.len) IN
    IF r.n > 0
    THEN [Outcome("return", f.rc, f, r.n, r.d, r.q) EXCEPT !.len = f.len]
    ELSE IF f.timeout_ms # 0 /\ elapsed_ms(f.start, now) < f.timeout_ms
    THEN Outcome("again", f.rc, f, 0, NoDatagram, q)
    ELSE Outcome("return", "RecvFailed", f, 0, NoDatagram, q)

\* a wait_recv whose read takes two datagrams off the channel
wait_recv_sim_reads_twice(p, q, f, now) ==
    LET r == chan_read(q, p.RF95 \in p.fds, f.len)
        r2 == chan_read(r.q, p.RF95 \in p.fds, f.len) IN
    IF r.n > 0 /\ r2.n > 0
    THEN Outcome("return", f.rc, f, r2.n, r2.d, r2.q)
    ELSE IF r.n > 0 THEN Outcome("return", f.rc, f, r.n, r.d, r.q)
    ELSE IF f.timeout_ms # 0 /\ elapsed_ms(f.start, now) < f.timeout_ms
    THEN Outcome("again", f.rc, f, 0, NoDatagram, q)
    ELSE Outcome("return", "RecvFailed", f, 0, NoDatagram, q)

\* a wait_recv that reads up to the maximum packet size whatever len is
wait_recv_sim_reads_max(p, q, f, now) ==
    LET r == chan_read(q, p.RF95 \in p.fds, PACKET_MAX_SIZE_BYTES) IN
    IF f.timeout_ms # 0
    THEN IF r.n > 0 THEN Outcome("return", f.rc, f, r.n, r.d, r.q)
         ELSE IF elapsed_ms(f.start, now) >= f.timeout_ms
         THEN Outcome("return", "RecvFailed", f, 0, NoDatagram, q)
         ELSE Outcome("again", f.rc, f, 0, NoDatagram, q)
    ELSE IF r.n <= 0 THEN Outcome("return", "RecvFailed", f, 0, NoDatagram, q)
         ELSE Outcome("return", f.rc, f, r.n, r.d, r.q)

\* a wait_recv whose single read, when it gets nothing, reports a timeout
wait_recv_sim_untimed_times_out(p, q, f, now) ==
    LET r == chan_read(q, p.RF95 \in p.fds, f.len) IN
    IF f.timeout_ms # 0
    THEN IF r.n > 0 THEN Outcome("return", f.rc, f, r.n, r.d, r.q)
         ELSE IF elapsed_ms(f.start, now) >= f.timeout_ms
         THEN Outcome("return", "RecvFailed", f, 0, NoDatagram, q)
         ELSE Outcome("again", f.rc, f, 0, NoDatagram, q)
    ELSE IF r.n <= 0 THEN Outcome("return", "TimedOut", f, 0, NoDatagram, q)
         ELSE Outcome("return", f.rc, f, r.n, r.d, r.q)

\* wait_recv(), simulated, after the implicit init.  timeout_ms != 0: one
\* turn of the loop, a read and then the deadline.  timeout_ms == 0: the
\* single read
wait_recv_sim(p, q, f, now) ==
    LET r == chan_read(q, p.RF95 \in p.fds, f.len) IN
    IF f.timeout_ms # 0
    THEN IF r.n > 0 THEN Outcome("return", f.rc, f, r.n, r.d, r.q)
         ELSE IF elapsed_ms(f.start, now) >= f.timeout_ms
         THEN Outcome("return", "RecvFailed", f, 0, NoDatagram, q)
         ELSE Outcome("again", f.rc, f, 0, NoDatagram, q)
    ELSE IF r.n <= 0 THEN Outcome("return", "RecvFailed", f, 0, NoDatagram, q)
         ELSE Outcome("return", f.rc, f, r.n, r.d, r.q)

\* a hardware wait_recv that fetches the packet whatever rc is
wait_recv_hw_recv_despite_rc(p, q, f, now) ==
    LET available == q # <<>>
        expired == f.timeout_ms # 0
                     /\ millis(now) - millis(f.start) >= f.timeout_ms
        r == chan_read(q, TRUE, f.len)
    IN  IF ~available /\ ~expired
        THEN Outcome("blocked", f.rc, f, 0, NoDatagram, q)
        ELSE IF r.n <= 0
        THEN Outcome("return",
                     IF f.rc = "Okay" THEN "RecvFailed" ELSE f.rc,
                     f, 0, NoDatagram, q)
        ELSE Outcome("return", f.rc, f, r.n, r.d, r.q)

\* wait_recv(), hardware, after the implicit init: waitAvailable or
\* waitAvailableTimeout, whose answer is dropped, then recv unless rc is
\* already an error
wait_recv_hw(p, q, f, now) ==
    LET available == q # <<>>
        expired == f.timeout_ms # 0
                     /\ millis(now) - millis(f.start) >= f.timeout_ms
        r == chan_read(q, TRUE, f.len)
    IN  IF ~available /\ ~expired
        THEN Outcome("blocked", f.rc, f, 0, NoDatagram, q)
        ELSE IF f.rc # "Okay" THEN Outcome("return", f.rc, f, 0, NoDatagram, q)
        ELSE IF r.n <= 0
        THEN Outcome("return", "RecvFailed", f, 0, NoDatagram, q)
        ELSE Outcome("return", f.rc, f, r.n, r.d, r.q)

wait_recv(sim, p, q, f, now) ==
    IF sim THEN wait_recv_sim(p, q, f, now) ELSE wait_recv_hw(p, q, f, now)

(***************************************************************************)
(* The state machine.                                                      *)
(***************************************************************************)
\* the statics as the loader leaves them, and an empty descriptor table
StartProc == [INITIALIZED |-> FALSE, RF95 |-> 0, LAST_RSSI |-> 1, fds |-> {}]

\* the peer's transport: Active since its setup()
PeerProc == [INITIALIZED |-> TRUE, RF95 |-> Min(FdSpace), LAST_RSSI |-> 1,
             fds |-> {Min(FdSpace)}]

\* the answers the environment may give to init
EnvsInit(p) ==
    IF SIMULATE
    THEN {[GoodEnv EXCEPT !.open = o] :
            o \in {b \in BOOLEAN : b => FdSpace \ p.fds # {}}}
    ELSE {GoodEnv, [GoodEnv EXCEPT !.drv_init = FALSE],
          [GoodEnv EXCEPT !.set_freq = FALSE]}

\* ... to the implicit init of send and wait_recv
EnvsAuto(p) == IF is_active(p) THEN {GoodEnv} ELSE EnvsInit(p)

\* ... to deinit
EnvsDeinit(p) ==
    IF SIMULATE /\ is_active(p)
    THEN {[GoodEnv EXCEPT !.close = c] : c \in CloseOutcomes}
    ELSE {GoodEnv}

\* ... to send: the write or the driver is asked only after a good init
EnvsSend(p) ==
    IF SIMULATE
    THEN {x \in {[e EXCEPT !.write = w] :
                     e \in EnvsAuto(p), w \in WriteOutcomes} :
            x.write # "full" => x.open}
    ELSE EnvsAuto(p)
             \cup {[GoodEnv EXCEPT !.drv_send = FALSE],
                   [GoodEnv EXCEPT !.drv_sent = FALSE]}

NoCall ==
    [op |-> "none", rc |-> "none", pre |-> StartProc,
     initRc |-> "none", io |-> FALSE, arrived |-> FALSE, timeout_ms |-> 0,
     cap |-> 0, len |-> 0, buf |-> <<>>, payload |-> "none", nwritten |-> 0,
     nread |-> 0, head0 |-> NoDatagram, twinRc |-> "none",
     inits |-> 0, handoffs |-> 0]

NoFrame ==
    [f |-> [rc |-> "none", len |-> 0, timeout_ms |-> 0,
            start |-> [sec |-> 0, usec |-> 0], initRc |-> "none",
            io |-> FALSE, inits |-> 0],
     pre |-> StartProc, arrived |-> FALSE, head0 |-> NoDatagram]

\* the other build before any call: its statics and the locals of its
\* wait_recv; cmp tells whether its environment could still answer alike
StartTwin == [p |-> StartProc, f |-> NoFrame.f, cmp |-> TRUE]
\* the other build once an answer had no counterpart there
NoTwin == [StartTwin EXCEPT !.cmp = FALSE]

\* the answers of the other backend that correspond to e: the backend's
\* init succeeds or fails, the transmission is accepted or rejected
TwinEnv(sim, e) ==
    IF sim
    THEN [GoodEnv EXCEPT !.drv_init = e.open, !.drv_send = (e.write = "full")]
    ELSE [GoodEnv EXCEPT !.open = e.drv_init,
                         !.write = IF e.drv_send THEN "full" ELSE "fail"]

\* whether every answer in e has a counterpart on the other backend: a
\* failed close, setFrequency or waitPacketSent has none
EnvComparable(sim, e) ==
    IF sim THEN e.close = "ok" ELSE e.set_freq /\ e.drv_sent

\* whether the other build's descriptor table lets its open succeed when
\* the backend's init does
OpenFits(tsim, tp, te, inits) ==
    ~tsim \/ ~inits \/ ~te.open \/ FdSpace \ tp.fds # {}

\* the other build after a call
Twinned(ok, p, f) == IF ok THEN [p |-> p, f |-> f, cmp |-> TRUE] ELSE NoTwin

NoScen == [stage |-> 0, handed |-> <<>>]
NoBack == [stage |-> 0, first |-> NoDatagram, second |-> NoDatagram]

\* the bytes a send handed to the channel: the first n of the payload
Handed(of, n) == IF n > 0 THEN SubSeq(Bytes(of), 1, n) ELSE <<>>

\* progress through init, send(A), deinit, send(B), each with the
\* environment answering well
ScenStep(s, op, of, e, n) ==
    IF e # GoodEnv THEN NoScen
    ELSE IF op = "init" THEN [stage |-> 1, handed |-> <<>>]
    ELSE IF s.stage = 1 /\ op = "send" /\ of = "A"
    THEN [stage |-> 2, handed |-> <<Handed(of, n)>>]
    ELSE IF s.stage = 2 /\ op = "deinit" THEN [s EXCEPT !.stage = 3]
    ELSE IF s.stage = 3 /\ op = "send" /\ of = "B"
    THEN [stage |-> 4, handed |-> Append(s.handed, Handed(of, n))]
    ELSE NoScen

\* progress through two back-to-back wait_recv calls of full capacity, the
\* first entered with two datagrams or more in the channel; first and
\* second are the two oldest datagrams then
BackStep(b, cap, q0) ==
    IF cap # PACKET_MAX_SIZE_BYTES THEN NoBack
    ELSE IF b.stage = 1 THEN [b EXCEPT !.stage = 2]
    ELSE IF Len(q0) >= 2
    THEN [stage |-> 1, first |-> q0[1], second |-> q0[2]]
    ELSE NoBack

\* the clock is not read outside wait_recv
NoClock == [sec |-> 0, usec |-> 0]

\* the instant at which a wait_recv begins: half a millisecond before the
\* next second, so that tv_usec wraps during the wait
Instants == {[sec |-> 0,
              usec |-> USEC_IN_MS * MS_IN_SECOND - USEC_IN_MS \div 2]}

Init ==
    /\ SIMULATE \in BOOLEAN
    /\ proc = StartProc
    /\ chan = <<>>
    /\ clock = NoClock
    /\ ticks = 0
    /\ pc = "idle"
    /\ frame = NoFrame
    /\ last = NoCall
    /\ lastOk = "none"
    /\ scen = NoScen
    /\ back = NoBack
    /\ faulted = FALSE
    /\ twin = StartTwin

\* a call of init()
CallInit ==
    /\ pc = "idle"
    /\ \E e \in EnvsInit(proc) :
         LET r == init(SIMULATE, proc, e)
             te == TwinEnv(SIMULATE, e)
             tr == init(~SIMULATE, twin.p, te)
             ok == /\ twin.cmp
                   /\ EnvComparable(SIMULATE, e)
                   /\ OpenFits(~SIMULATE, twin.p, te, TRUE)
         IN
         /\ proc' = r.p
         /\ twin' = Twinned(ok, tr.p, twin.f)
         /\ last' = [NoCall EXCEPT !.op = "init", !.rc = r.rc, !.pre = proc,
                                   !.twinRc = IF ok THEN tr.rc ELSE "none"]
         /\ lastOk' = IF r.rc = "Okay" THEN "init" ELSE lastOk
         /\ scen' = ScenStep(scen, "init", "none", e, 0)
         /\ faulted' = (faulted \/ e # GoodEnv)
    /\ back' = NoBack
    /\ UNCHANGED <<SIMULATE, chan, clock, ticks, pc, frame>>

\* a call of deinit()
CallDeinit ==
    /\ pc = "idle"
    /\ \E e \in EnvsDeinit(proc) :
         LET r == deinit(SIMULATE, proc, e)
             tr == deinit(~SIMULATE, twin.p, TwinEnv(SIMULATE, e))
             ok == twin.cmp /\ EnvComparable(SIMULATE, e)
         IN
         /\ proc' = r.p
         /\ twin' = Twinned(ok, tr.p, twin.f)
         /\ last' = [NoCall EXCEPT !.op = "deinit", !.rc = r.rc, !.pre = proc,
                                   !.twinRc = IF ok THEN tr.rc ELSE "none"]
         /\ lastOk' = IF r.rc = "Okay" THEN "deinit" ELSE lastOk
         /\ scen' = ScenStep(scen, "deinit", "none", e, 0)
         /\ faulted' = (faulted \/ e # GoodEnv)
    /\ back' = NoBack
    /\ UNCHANGED <<SIMULATE, chan, clock, ticks, pc, frame>>

\* a call of send(buf, sz); the datagram leaves toward the peer
CallSend ==
    /\ pc = "idle"
    /\ \E of \in Payloads, e \in EnvsSend(proc) :
         LET buf == Bytes(of)
             r == send(SIMULATE, proc, buf, Len(buf), e)
             te == TwinEnv(SIMULATE, e)
             tr == send(~SIMULATE, twin.p, buf, Len(buf), te)
             ok == /\ twin.cmp
                   /\ EnvComparable(SIMULATE, e)
                   /\ OpenFits(~SIMULATE, twin.p, te, ~is_active(twin.p))
         IN
         /\ proc' = r.p
         /\ twin' = Twinned(ok, tr.p, twin.f)
         /\ last' = [NoCall EXCEPT !.op = "send", !.rc = r.rc, !.pre = proc,
                                   !.initRc = r.initRc,
                                   !.io = r.io, !.payload = of,
                                   !.nwritten = r.nwritten,
                                   !.inits = r.inits,
                                   !.handoffs = r.handoffs,
                                   !.twinRc = IF ok THEN tr.rc ELSE "none"]
         /\ lastOk' = IF r.initRc = "Okay" THEN "init" ELSE lastOk
         /\ scen' = ScenStep(scen, "send", of, e, r.nwritten)
         /\ faulted' = (faulted \/ e # GoodEnv)
    /\ back' = NoBack
    /\ UNCHANGED <<SIMULATE, chan, clock, ticks, pc, frame>>

\* the peer's send(buf, sz); the datagram joins the channel
PeerSend ==
    /\ Len(chan) < MaxQueue
    /\ \E of \in Payloads, e \in EnvsSend(PeerProc) :
         LET buf == Bytes(of)
             r == send(SIMULATE, PeerProc, buf, Len(buf), e) IN
         /\ chan' = chan_write(chan, of, r.nwritten, Len(buf), r.rc)
         /\ chan' # chan
         /\ frame' = IF pc = "wait_recv"
                     THEN [frame EXCEPT !.arrived = TRUE] ELSE frame
    /\ UNCHANGED <<SIMULATE, proc, clock, ticks, pc, last, lastOk, scen, back,
                   faulted, twin>>

\* a call of wait_recv(buf, len, timeout_ms), up to its wait
WaitRecvEnter ==
    /\ pc = "idle"
    /\ \E t \in Timeouts, cap \in Caps, e \in EnvsAuto(proc), now \in Instants :
         LET r == wait_recv_enter(SIMULATE, proc, cap, t, e, now)
             te == TwinEnv(SIMULATE, e)
             tr == wait_recv_enter(~SIMULATE, twin.p, cap, t, te, now)
             ok == /\ twin.cmp
                   /\ EnvComparable(SIMULATE, e)
                   /\ OpenFits(~SIMULATE, twin.p, te, ~is_active(twin.p))
         IN
         /\ twin' = Twinned(ok, tr.p, tr.f)
         /\ MaxTicks * TickStep(t) >= t * USEC_IN_MS
         /\ t = RX_TIMEOUT_MS => cap = PACKET_MAX_SIZE_BYTES
         /\ clock' = now
         /\ proc' = r.p
         /\ frame' = [f |-> r.f, pre |-> proc,
                      arrived |-> chan # <<>>,
                      head0 |-> IF chan # <<>> THEN Head(chan)
                                ELSE NoDatagram]
         /\ lastOk' = IF r.f.initRc = "Okay" THEN "init" ELSE lastOk
         /\ faulted' = (faulted \/ e # GoodEnv)
         /\ back' = BackStep(back, cap, chan)
    /\ pc' = "wait_recv"
    /\ ticks' = 0
    /\ last' = NoCall
    /\ scen' = NoScen
    /\ UNCHANGED <<SIMULATE, chan>>

\* the rest of the call: the read that ends it, or the deadline
WaitRecvReturn ==
    /\ pc = "wait_recv"
    /\ LET r == wait_recv(SIMULATE, proc, chan, frame.f, clock)
           tr == wait_recv(~SIMULATE, twin.p, chan, twin.f, clock)
       IN
       /\ r.state = "return"
       /\ twin' = Twinned(twin.cmp, twin.p, NoFrame.f)
       /\ chan' = r.q
       /\ last' = [NoCall EXCEPT !.op = "wait_recv", !.rc = r.rc,
                                 !.pre = frame.pre,
                                 !.initRc = frame.f.initRc,
                                 !.io = frame.f.io, !.arrived = frame.arrived,
                                 !.timeout_ms = frame.f.timeout_ms,
                                 !.cap = frame.f.len, !.len = r.len,
                                 !.buf = read_into(FreshBuf, r.d, r.n),
                                 !.nread = r.n,
                                 !.inits = frame.f.inits,
                                 !.twinRc =
                                     IF twin.cmp /\ tr.state = "return"
                                     THEN tr.rc ELSE "none",
                                 !.head0 = frame.head0]
    /\ pc' = "idle"
    /\ frame' = NoFrame
    /\ clock' = NoClock
    /\ ticks' = 0
    /\ UNCHANGED <<SIMULATE, proc, lastOk, scen, back, faulted>>

\* the clock moves on while the call waits
Tick ==
    /\ pc = "wait_recv"
    /\ ticks < MaxTicks
    /\ ticks' = ticks + 1
    /\ LET usec == clock.usec + TickStep(frame.f.timeout_ms) IN
       clock' = [sec |-> clock.sec + usec \div (USEC_IN_MS * MS_IN_SECOND),
                 usec |-> usec % (USEC_IN_MS * MS_IN_SECOND)]
    /\ UNCHANGED <<SIMULATE, proc, chan, pc, frame, last, lastOk, scen, back,
                   faulted, twin>>

Next ==
    \/ CallInit
    \/ CallDeinit
    \/ CallSend
    \/ PeerSend
    \/ WaitRecvEnter
    \/ WaitRecvReturn
    \/ Tick

Spec == Init /\ [][Next]_vars

\* the clock advances, and the call in progress takes its next step
LiveSpec == Spec /\ WF_vars(Tick) /\ WF_vars(WaitRecvReturn)

(***************************************************************************)
(* The claims.                                                             *)
(***************************************************************************)
\* rx/main.cpp, loop(): what the receiver does with the code of its
\* wait_recv
loop(rc) ==
    IF rc = "Okay" THEN "print(msg)"
    ELSE IF rc = "TimedOut" THEN "print(Timed out)"
    ELSE "error(Failed to receive message)"

\* the bytes a wait_recv reported: the first len bytes of buf
Data(l) == SubSeq(l.buf, 1, l.len)

InitErrors == {"InitFailed", "SetFrequencyFailed"}

\* C1: a wait_recv with timeout_ms > 0 during which no datagram is in the
\* channel returns TimedOut, on either backend.
C1_NoDataTimedOut ==
    (last.op = "wait_recv" /\ last.timeout_ms > 0 /\ ~last.arrived)
        => last.rc = "TimedOut"

\* C2: send and wait_recv never use the backend (write, read, the driver's
\* send, waitAvailable, recv) while the transport is not Active.
C2_NoBackendUseWhileInactive ==
    /\ last.op \in {"send", "wait_recv"} => ~last.io
    /\ pc = "wait_recv" => ~frame.f.io

\* C3: a send or wait_recv whose implicit init fails with InitFailed or
\* SetFrequencyFailed returns that same code.
C3_InitErrorPropagated ==
    (last.op \in {"send", "wait_recv"} /\ last.initRc \in InitErrors)
        => last.rc = last.initRc

\* C4: deinit called while Uninitialized returns NotInit and leaves
\* INITIALIZED, the handle, the descriptor table and LAST_RSSI as they were.
C4_DeinitUninitialized ==
    (last.op = "deinit" /\ ~is_active(last.pre))
        => /\ last.rc = "NotInit"
           /\ proc = last.pre
           /\ ~is_active(proc)

\* C4's case: a deinit of a transport that a previous deinit had released
C4_Witness ==
    /\ last.op = "deinit"
    /\ ~is_active(last.pre)
    /\ lastOk = "deinit"

\* C5: init called while Active returns Okay or AlreadyInit, whatever the
\* environment answers, and leaves the transport Active with a usable handle.
C5_InitWhileActive ==
    (last.op = "init" /\ is_active(last.pre))
        => /\ last.rc \in {"Okay", "AlreadyInit"}
           /\ is_active(proc)
           /\ SIMULATE => proc.RF95 \in proc.fds

\* C6: is_active() is true exactly when the last life-cycle step that
\* returned Okay was an init (a call of init, or the implicit one of send or
\* wait_recv) and not a deinit: true after an init that returns Okay, false
\* after a deinit that returns Okay, false after an init from Uninitialized
\* that fails.
C6_ActiveIffLastOkInit ==
    /\ is_active(proc) <=> (lastOk = "init")
    /\ (last.op = "init" /\ last.rc = "Okay") => is_active(proc)
    /\ (last.op = "deinit" /\ last.rc = "Okay") => ~is_active(proc)
    /\ (last.op = "init" /\ ~is_active(last.pre) /\ last.rc \in InitErrors)
          => ~is_active(proc)

\* C6's case: an init that fails after an earlier init and deinit succeeded
C6_Witness ==
    /\ last.op = "init"
    /\ last.rc \in InitErrors
    /\ lastOk = "deinit"

\* C7: in init, send(A), deinit, send(B) with the channel answering every
\* open, write and close well, the second send finds the transport
\* Uninitialized, makes its implicit init, returns Okay, hands B to the
\* channel after A and leaves the transport Active.
C7_SendReinitializes ==
    scen.stage = 4
        => /\ last.op = "send"
           /\ ~is_active(last.pre)
           /\ last.initRc = "Okay"
           /\ last.rc = "Okay"
           /\ scen.handed = <<MsgA, MsgB>>
           /\ is_active(proc)

\* C7's case: the fourth call of the sequence has returned, on the
\* simulated backend
C7_Witness ==
    /\ SIMULATE
    /\ scen.stage = 4
    /\ last.op = "send"
    /\ last.payload = "B"

\* C8: with two datagrams or more in the channel, two back-to-back wait_recv
\* calls of capacity 251 return Okay with the oldest and then the second
\* oldest datagram, each whole and alone (no environment failure so far).
C8_BackToBack ==
    (~faulted /\ last.op = "wait_recv")
        => /\ back.stage = 1
                => last.rc = "Okay" /\ Data(last) = DatagramBytes(back.first)
           /\ back.stage = 2
                => last.rc = "Okay"
                   /\ Data(last) = DatagramBytes(back.second)

\* C8's case: the second call has returned; the two datagrams differ
C8_Witness ==
    /\ ~faulted
    /\ last.op = "wait_recv"
    /\ back.stage = 2
    /\ DatagramBytes(back.first) # DatagramBytes(back.second)

\* C9: on the simulated channel, when the oldest datagram comes from a send
\* that returned Okay, a wait_recv of capacity 251 returns Okay with len the
\* length of the payload sent and buf its bytes (no environment failure so
\* far at the receiving end).
C9_RoundTrip ==
    (/\ SIMULATE
     /\ ~faulted
     /\ last.op = "wait_recv"
     /\ last.cap = PACKET_MAX_SIZE_BYTES
     /\ last.head0.rc = "Okay")
        => /\ last.rc = "Okay"
           /\ last.len = last.head0.sz
           /\ Data(last) = Bytes(last.head0.of)

\* C9's case: a payload of the maximum size has made the round trip
C9_Witness ==
    /\ SIMULATE
    /\ ~faulted
    /\ last.op = "wait_recv"
    /\ last.cap = PACKET_MAX_SIZE_BYTES
    /\ last.head0.rc = "Okay"
    /\ last.head0.sz = PACKET_MAX_SIZE_BYTES

\* C10: a wait_recv with timeout_ms > 0 returns, with or without data and
\* whether or not its implicit init succeeded, as long as the clock advances.
C10_TimedWaitReturns ==
    (pc = "wait_recv" /\ frame.f.timeout_ms > 0) ~> (pc = "idle")

\* C10's case: a timed wait_recv whose implicit init failed has returned
\* without a datagram
C10_Witness ==
    /\ last.op = "wait_recv"
    /\ last.timeout_ms > 0
    /\ last.initRc \in InitErrors
    /\ ~last.arrived

\* C11, as stated: a wait_recv with timeout_ms = 0 never returns TimedOut;
\* every return is Okay with at least one byte received, or RecvFailed.
C11_UntimedOkayOrRecvFailed ==
    (last.op = "wait_recv" /\ last.timeout_ms = 0)
        => \/ last.rc = "Okay" /\ last.nread >= 1 /\ last.len >= 1
           \/ last.rc = "RecvFailed"

\* C11, amended: a wait_recv with timeout_ms = 0 never returns TimedOut;
\* every return is Okay with at least one byte received, or RecvFailed, or,
\* on the hardware backend, the error of its failed implicit init.
C11_UntimedNeverTimedOut ==
    (last.op = "wait_recv" /\ last.timeout_ms = 0)
        => /\ last.rc # "TimedOut"
           /\ \/ last.rc = "Okay" /\ last.nread >= 1 /\ last.len >= 1
              \/ last.rc = "RecvFailed"
              \/ /\ ~SIMULATE
                 /\ last.initRc \in InitErrors
                 /\ last.rc = last.initRc

\* C11's case: an untimed wait_recv whose implicit init failed has returned,
\* on the hardware backend
C11_Witness ==
    /\ ~SIMULATE
    /\ last.op = "wait_recv"
    /\ last.timeout_ms = 0
    /\ last.initRc \in InitErrors

\* C12: given the same calls and corresponding answers of the environment,
\* the two backends return the same code and agree on is_active().
C12_BackendsAgree ==
    /\ last.twinRc # "none" => last.rc = last.twinRc
    /\ twin.cmp => is_active(proc) = is_active(twin.p)

\* C13: a send makes at most one implicit init and at most one write or
\* driver send, a wait_recv at most one implicit init; nothing that failed
\* is tried again inside the call.
C13_OneAttempt ==
    /\ last.op = "send" => last.inits <= 1 /\ last.handoffs <= 1
    /\ last.op = "wait_recv" => last.inits <= 1
    /\ pc = "wait_recv" => frame.f.inits <= 1

\* C13's case: a send whose implicit init failed and whose write failed
C13_Witness ==
    /\ last.op = "send"
    /\ last.initRc \in InitErrors
    /\ last.rc = "SendFailed"
    /\ last.inits = 1
    /\ last.handoffs = 1

\* C14: when wait_recv returns a code other than Okay, the caller's buffer
\* and len are as they were before the call.
C14_FailureLeavesBuffer ==
    (last.op = "wait_recv" /\ last.rc # "Okay")
        => /\ last.buf = FreshBuf
           /\ last.len = last.cap

\* C14's case: a wait_recv has failed although a datagram was in the channel
\* when it began
C14_Witness ==
    /\ last.op = "wait_recv"
    /\ last.rc # "Okay"
    /\ last.head0 # NoDatagram

\* C15: when wait_recv returns Okay, the len it reports is at least 1 and at
\* most the capacity passed in, and buf is untouched beyond that capacity.
C15_LenWithinCapacity ==
    (last.op = "wait_recv" /\ last.rc = "Okay")
        => /\ last.len >= 1
           /\ last.len <= last.cap
           /\ SubSeq(last.buf, last.cap + 1, Len(last.buf))
                = SubSeq(FreshBuf, last.cap + 1, Len(FreshBuf))

\* C15's case: a wait_recv of capacity 1 has returned Okay on a datagram of
\* the maximum size
C15_Witness ==
    /\ last.op = "wait_recv"
    /\ last.rc = "Okay"
    /\ last.cap = 1
    /\ last.head0.n = PACKET_MAX_SIZE_BYTES

\* C16: on the simulated backend the descriptors the transport has opened
\* and not closed are exactly the one in RF95 while is_active() is true, and
\* none while it is false.
C16_OneDescriptorWhileActive ==
    SIMULATE => proc.fds = IF is_active(proc) THEN {proc.RF95} ELSE {}

\* C17: on the simulated backend send returns Okay exactly when its write
\* transferred sz bytes; a negative or short count gives SendFailed.
C17_SendOkayIffFullWrite ==
    (SIMULATE /\ last.op = "send")
        => LET sz == Len(Bytes(last.payload)) IN
           /\ last.rc = "Okay" <=> last.nwritten = sz
           /\ last.nwritten # sz => last.rc = "SendFailed"

\* C17's case: a send of the largest payload whose write was short
C17_Witness ==
    /\ SIMULATE
    /\ last.op = "send"
    /\ last.payload = "B"
    /\ last.nwritten = PACKET_MAX_SIZE_BYTES - 1

\* C18: when the receiver's wait_recv of 251 bytes and 5000 ms, made on an
\* Active transport, sees no datagram in its window, the loop reports
\* "Timed out" and goes round again; it does not take the fatal error path.
C18_ReceiverKeepsPolling ==
    (/\ last.op = "wait_recv"
     /\ last.timeout_ms = RX_TIMEOUT_MS
     /\ last.cap = PACKET_MAX_SIZE_BYTES
     /\ is_active(last.pre)
     /\ ~last.arrived)
        => loop(last.rc) = "print(Timed out)"

\* the codes no path of LoraRadio.cpp assigns
UnusedCodes == {"AlreadyInit", "SdActive", "FailedToDeinitSd",
                "FailedToRestoreSd"}

\* C19: no call returns AlreadyInit, SdActive, FailedToDeinitSd or
\* FailedToRestoreSd; init returns only Okay, InitFailed or
\* SetFrequencyFailed, deinit only Okay, NotInit or DeinitFailed.
C19_CodesReturned ==
    /\ last.op # "none" => last.rc \in RC \ UnusedCodes
    /\ last.initRc \notin UnusedCodes
    /\ last.op = "init" => last.rc \in {"Okay"} \cup InitErrors
    /\ last.op = "deinit" => last.rc \in {"Okay", "NotInit", "DeinitFailed"}

\* C19's case: an init of a transport that was already Active has returned
C19_Witness ==
    /\ last.op = "init"
    /\ is_active(last.pre)
    /\ last.rc = "Okay"

\* C20: last_rssi() returns 1 in every reachable state; no call changes
\* LAST_RSSI.
C20_RssiSentinel ==
    /\ last_rssi(proc) = 1
    /\ last.op # "none" => last_rssi(last.pre) = 1

\* C20's case: a wait_recv has received a datagram on the hardware backend
C20_Witness ==
    /\ ~SIMULATE
    /\ last.op = "wait_recv"
    /\ last.rc = "Okay"
    /\ last.nread >= 1
====
